---- MODULE Spec2Model ----
(***************************************************************************)
(* Vector2d and ShortVector2d (src/vector2d): an immutable two-dimensional *)
(* vector, its single-precision variant, and their binary encoding.        *)
(*                                                                         *)
(* A Python float is an IEEE-754 binary64.  It is held here as the record  *)
(* [s, e, mh, ml]: sign bit, 11-bit biased exponent, and the 52-bit        *)
(* fraction split into its upper 23 bits (mh) and its lower 29 bits (ml),  *)
(* so that every quantity stays below 2^31.  A C float (binary32) is the   *)
(* record [s, e, m]: sign, 8-bit biased exponent, 23-bit fraction.         *)
(***************************************************************************)
EXTENDS Integers, Sequences, FiniteSets, TLC

VARIABLES v, ret, byteorder

vars == <<v, ret, byteorder>>

(***************************************************************************)
(* IEEE-754 values                                                         *)
(***************************************************************************)
Dbl(s, e, mh, ml) == [s |-> s, e |-> e, mh |-> mh, ml |-> ml]

Flt(s, e, m) == [s |-> s, e |-> e, m |-> m]

IsNaN(d) == d.e = 2047 /\ (d.mh # 0 \/ d.ml # 0)

IsInf(d) == d.e = 2047 /\ d.mh = 0 /\ d.ml = 0

IsZero(d) == d.e = 0 /\ d.mh = 0 /\ d.ml = 0

\* float.__eq__: IEEE comparison; a NaN equals nothing, -0.0 equals 0.0.
FloatEq(a, b) ==
    /\ ~IsNaN(a)
    /\ ~IsNaN(b)
    /\ (a = b \/ (IsZero(a) /\ IsZero(b)))

\* floor(log2(n)) for n >= 1.
RECURSIVE Log2(_)
Log2(n) == IF n < 2 THEN 0 ELSE 1 + Log2(n \div 2)

\* The C conversion (float)d that array('f', ...) applies to each item:
\* round to nearest, ties to even; overflow gives an infinity, underflow a
\* subnormal or a zero; a NaN keeps its upper fraction bits and is quieted.
DoubleToFloat(d) ==
    IF d.e = 2047
    THEN IF IsInf(d) THEN Flt(d.s, 255, 0)
                     ELSE Flt(d.s, 255, (d.mh % 4194304) + 4194304)
    ELSE IF d.e = 0 THEN Flt(d.s, 0, 0)
    ELSE LET E == d.e - 896 IN
         IF E >= 255 THEN Flt(d.s, 255, 0)
         ELSE IF E >= 1
         THEN LET up == IF d.ml > 268435456 \/ (d.ml = 268435456 /\ d.mh % 2 = 1)
                        THEN 1 ELSE 0
                  m2 == d.mh + up
              IN IF m2 < 8388608 THEN Flt(d.s, E, m2)
                 ELSE IF E + 1 >= 255 THEN Flt(d.s, 255, 0)
                 ELSE Flt(d.s, E + 1, 0)
         ELSE LET shift == 1 - E IN
              IF shift > 24 THEN Flt(d.s, 0, 0)
              ELSE LET sig  == 8388608 + d.mh
                       q    == sig \div (2 ^ shift)
                       r    == sig % (2 ^ shift)
                       half == 2 ^ (shift - 1)
                       up   == IF r > half
                                  \/ (r = half /\ (d.ml > 0 \/ q % 2 = 1))
                               THEN 1 ELSE 0
                       m2   == q + up
                   IN Flt(d.s, m2 \div 8388608, m2 % 8388608)

\* The exact widening of a C float to a Python float (what reading an 'f'
\* item of a memoryview returns).
FloatToDouble(f) ==
    IF f.e = 255 THEN Dbl(f.s, 2047, f.m, 0)
    ELSE IF f.e = 0
    THEN IF f.m = 0 THEN Dbl(f.s, 0, 0, 0)
         ELSE LET k == Log2(f.m)
              IN Dbl(f.s, k + 874, (f.m - 2 ^ k) * (2 ^ (23 - k)), 0)
    ELSE Dbl(f.s, f.e + 896, f.m, 0)

\* float(n) for an int of the modelled range (|n| < 2^24, exact).
IntToDouble(n) ==
    IF n = 0 THEN Dbl(0, 0, 0, 0)
    ELSE LET a == IF n < 0 THEN -n ELSE n
             k == Log2(a)
         IN Dbl(IF n < 0 THEN 1 ELSE 0, 1023 + k, (a - 2 ^ k) * (2 ^ (23 - k)), 0)

(***************************************************************************)
(* Bytes of an item, in the platform's native byte order                   *)
(***************************************************************************)
Reverse(s) == [i \in 1..Len(s) |-> s[Len(s) + 1 - i]]

Native(le, order) == IF order = "little" THEN le ELSE Reverse(le)

\* A variant that always writes the most significant byte first.
PackDoubleNetworkOrder(d, order) ==
    << (d.e \div 16) + d.s * 128,
       (d.mh \div 524288) + (d.e % 16) * 16,
       (d.mh \div 2048) % 256,
       (d.mh \div 8) % 256,
       (d.ml \div 16777216) + (d.mh % 8) * 32,
       (d.ml \div 65536) % 256,
       (d.ml \div 256) % 256,
       d.ml % 256 >>

PackDouble(d, order) ==
    Native(<< d.ml % 256,
              (d.ml \div 256) % 256,
              (d.ml \div 65536) % 256,
              (d.ml \div 16777216) + (d.mh % 8) * 32,
              (d.mh \div 8) % 256,
              (d.mh \div 2048) % 256,
              (d.mh \div 524288) + (d.e % 16) * 16,
              (d.e \div 16) + d.s * 128 >>, order)

UnpackDouble(b, order) ==
    LET le == Native(b, order) IN
    Dbl(le[8] \div 128,
        (le[8] % 128) * 16 + le[7] \div 16,
        (le[7] % 16) * 524288 + le[6] * 2048 + le[5] * 8 + le[4] \div 32,
        (le[4] % 32) * 16777216 + le[3] * 65536 + le[2] * 256 + le[1])

PackFloat(f, order) ==
    Native(<< f.m % 256,
              (f.m \div 256) % 256,
              (f.m \div 65536) + (f.e % 2) * 128,
              (f.e \div 2) + f.s * 128 >>, order)

UnpackFloat(b, order) ==
    LET le == Native(b, order) IN
    Flt(le[4] \div 128,
        (le[4] % 128) * 2 + le[3] \div 128,
        (le[3] % 128) * 65536 + le[2] * 256 + le[1])

(***************************************************************************)
(* Python values and the float() builtin                                   *)
(***************************************************************************)
PyFloat(d) == [t |-> "float", d |-> d]

PyInt(n) == [t |-> "int", n |-> n]

\* A str, as the sequence of its characters.
PyStr(chars) == [t |-> "str", s |-> chars]

\* A bytes object, as the sequence of its byte values.
PyBytes(b) == [t |-> "bytes", b |-> b]

PyNone == [t |-> "NoneType"]

\* An int beyond the range of a double, such as 10**400.
PyHugeInt == [t |-> "hugeint"]

Return(val) == [kind |-> "return", val |-> val]

Raise(exc) == [kind |-> "raise", val |-> exc]

Digits == <<"0", "1", "2", "3", "4", "5", "6", "7", "8", "9">>

IsDigit(c) == \E i \in 1..10 : Digits[i] = c

DigitValue(c) == (CHOOSE i \in 1..10 : Digits[i] = c) - 1

RECURSIVE DecimalValue(_)
DecimalValue(chars) ==
    IF chars = <<>> THEN 0
    ELSE 10 * DecimalValue(SubSeq(chars, 1, Len(chars) - 1))
         + DigitValue(chars[Len(chars)])

\* float(str): an optional sign and decimal digits, or one of the special
\* names; anything else is "could not convert string to float".  (Fractions
\* and exponents are not among the modelled inputs.)
ParseFloat(chars) ==
    LET neg  == chars # <<>> /\ chars[1] = "-"
        body == IF chars # <<>> /\ chars[1] \in {"-", "+"} THEN Tail(chars) ELSE chars
        sgn  == IF neg THEN 1 ELSE 0
    IN IF body = <<"n", "a", "n">> THEN Return(Dbl(sgn, 2047, 4194304, 0))
       ELSE IF body = <<"i", "n", "f">> THEN Return(Dbl(sgn, 2047, 0, 0))
       ELSE IF body # <<>> /\ \A i \in 1..Len(body) : IsDigit(body[i])
       THEN LET d == IntToDouble(DecimalValue(body))
            IN Return(Dbl(sgn, d.e, d.mh, d.ml))
       ELSE Raise("ValueError")

\* float(b) for a bytes object of one byte (an item of a 'c' memoryview):
\* the text is parsed as for a str, and a single character is a number only
\* when it is an ASCII digit.
ParseByte(b) ==
    IF Len(b) = 1 /\ b[1] \in 48..57 THEN Return(IntToDouble(b[1] - 48))
    ELSE Raise("ValueError")

\* float(x), as Vector2d.__init__ calls it on each argument.
Float(x) ==
    CASE x.t = "float"   -> Return(x.d)
      [] x.t = "int"     -> Return(IntToDouble(x.n))
      [] x.t = "hugeint" -> Raise("OverflowError")
      [] x.t = "str"     -> ParseFloat(x.s)
      [] x.t = "bytes"   -> ParseByte(x.b)
      [] OTHER           -> Raise("TypeError")

(***************************************************************************)
(* The two classes                                                         *)
(***************************************************************************)
Classes == {"Vector2d", "ShortVector2d"}

\* The method resolution order of each class (below object).
Mro(cls) == IF cls = "ShortVector2d" THEN <<"ShortVector2d", "Vector2d">>
            ELSE <<"Vector2d">>

\* Vector2d.typecode, and ShortVector2d's override of it.
typecode(cls) == IF cls = "ShortVector2d" THEN "f" ELSE "d"

Ord(c) == CASE c = "d" -> 100 [] c = "f" -> 102 [] c = "B" -> 66

Chr(b) == CASE b = 100 -> "d" [] b = 102 -> "f" [] b = 66 -> "B" [] b = 99 -> "c"
            [] OTHER -> "?"

\* cls(x, y): a new instance whose __init__ stores float(x), then float(y).
\* When either conversion raises, the exception leaves the call and the
\* instance under construction is bound to nothing.
New(cls, x, y) ==
    LET fx == Float(x) IN
    IF fx.kind = "raise" THEN fx
    ELSE LET fy == Float(y) IN
         IF fy.kind = "raise" THEN fy
         ELSE Return([t |-> "vector", cls |-> cls, x |-> fx.val, y |-> fy.val])

\* The x and y properties.
GetX(self) == self.x

GetY(self) == self.y

\* __iter__, drained: the items a consumer of iter(self) receives.
Items(self) == <<PyFloat(GetX(self)), PyFloat(GetY(self))>>

(***************************************************************************)
(* __hash__: hash((self.x, self.y))                                        *)
(***************************************************************************)
\* The positions of the one-bits among the low `width` bits of n.
BitsOf(n, width) == {i \in 0..(width - 1) : (n \div (2 ^ i)) % 2 = 1}

\* A hash value: its sign and the one-bits of its magnitude (61 bits).
HashValue(neg, bits) == [neg |-> neg /\ bits # {}, bits |-> bits]

\* float.__hash__ of a finite value M * 2^E: M * 2^E reduced modulo the
\* Mersenne prime 2^61 - 1, which is M's bits rotated by E in a 61-bit word,
\* with the sign of the value; -1 is reserved and becomes -2.
FiniteHash(d) ==
    LET M == BitsOf(d.ml, 29) \cup {29 + i : i \in BitsOf(d.mh, 23)}
             \cup (IF d.e > 0 THEN {52} ELSE {})
        E == IF d.e > 0 THEN d.e - 1075 ELSE -1074
        rotated == {(i + E) % 61 : i \in M}
    IN IF d.s = 1 /\ rotated = {0} THEN HashValue(TRUE, {1})
       ELSE HashValue(d.s = 1, rotated)

\* The hashes float.__hash__ may return.  Of an infinity: +-314159.  Of a NaN:
\* 0 up to Python 3.9, and since 3.10 a value derived from the address of the
\* float object, of which two representatives stand here.
FloatHashes(d) ==
    IF IsNaN(d) THEN {HashValue(FALSE, {}), HashValue(FALSE, {4}), HashValue(FALSE, {5})}
    ELSE IF IsInf(d) THEN {HashValue(d.s = 1, BitsOf(314159, 19))}
    ELSE {FiniteHash(d)}

\* tuple.__hash__: a fixed mixing of the length and of the item hashes in
\* order; the mixing function is left uninterpreted.
TupleHash(lanes) == [t |-> "tuplehash", lanes |-> lanes]

\* A variant that hashes the class along with the coordinates.
HashesWithClass(self) ==
    {TupleHash(<<self.cls, hx, hy>>) : hx \in FloatHashes(GetX(self)),
                                       hy \in FloatHashes(GetY(self))}

\* The values hash(self) may return.
Hashes(self) ==
    {TupleHash(<<hx, hy>>) : hx \in FloatHashes(GetX(self)),
                             hy \in FloatHashes(GetY(self))}

(***************************************************************************)
(* __eq__ and the == operator                                              *)
(***************************************************************************)
\* isinstance(other, Iterable): the operand's class defines __iter__.
IsIterable(other) == other.t \in {"vector", "tuple", "list", "str"}

\* tuple(other)
TupleOf(other) ==
    CASE other.t = "vector" -> Items(other)
      [] other.t \in {"tuple", "list"} -> other.items
      [] other.t = "str" -> [i \in 1..Len(other.s) |-> PyStr(<<other.s[i]>>)]

\* a == b for a float a and any item b: numeric for a float or an int,
\* False for every other type.  The operand's items are objects of their
\* own: none is the very float object held by the vector, so the identity
\* shortcut of the tuple comparison never applies.
ItemEq(a, b) ==
    CASE b.t = "float" -> FloatEq(a.d, b.d)
      [] b.t = "int"   -> FloatEq(a.d, IntToDouble(b.n))
      [] OTHER         -> FALSE

\* A variant that compares the items pairwise up to the shorter length.
TupleEqZip(a, b) ==
    \A i \in 1..(IF Len(a) < Len(b) THEN Len(a) ELSE Len(b)) : ItemEq(a[i], b[i])

\* tuple.__eq__ against a tuple whose items are floats.
TupleEq(a, b) ==
    /\ Len(a) = Len(b)
    /\ \A i \in 1..Len(a) : ItemEq(a[i], b[i])

\* Vector2d.__eq__(self, other)
Eq(self, other) ==
    IF ~IsIterable(other) THEN [t |-> "NotImplementedType"]
    ELSE [t |-> "bool", b |-> TupleEq(Items(self), TupleOf(other))]

\* self == other: when __eq__ returns NotImplemented, the reflected
\* other.__eq__(self) of an int, a float or None returns it too, and the
\* operator falls back to identity, which is False for two objects.
EqOperator(self, other) ==
    LET r == Eq(self, other) IN IF r.t = "NotImplementedType" THEN FALSE ELSE r.b

(***************************************************************************)
(* __bytes__ and frombytes                                                 *)
(***************************************************************************)
\* The item size of a memoryview/array format; 0 when it is no format.
ItemSize(tc) ==
    CASE tc = "d" -> 8 [] tc = "f" -> 4 [] tc \in {"B", "c"} -> 1 [] OTHER -> 0

RECURSIVE Concat(_)
Concat(seqs) == IF seqs = <<>> THEN <<>> ELSE Head(seqs) \o Concat(Tail(seqs))

\* bytes(array(tc, items)): each item converted to the C type and stored.
ArrayBytes(tc, items, order) ==
    Concat([i \in 1..Len(items) |->
              IF tc = "d" THEN PackDouble(items[i].d, order)
              ELSE PackFloat(DoubleToFloat(items[i].d), order)])

\* A variant that uses Vector2d.typecode instead of self.typecode.
BytesBaseTypecode(self, order) ==
    <<Ord(typecode("Vector2d"))>> \o ArrayBytes(typecode("Vector2d"), Items(self), order)

\* Vector2d.__bytes__
Bytes(self, order) ==
    <<Ord(typecode(self.cls))>> \o ArrayBytes(typecode(self.cls), Items(self), order)

\* One item of a memoryview of format tc, as the Python object it reads as.
ReadItem(tc, b, order) ==
    CASE tc = "d" -> PyFloat(UnpackDouble(b, order))
      [] tc = "f" -> PyFloat(FloatToDouble(UnpackFloat(b, order)))
      [] tc = "B" -> PyInt(b[1])
      [] tc = "c" -> PyBytes(b)

\* memoryview(payload).cast(tc)
Cast(payload, tc, order) ==
    LET w == ItemSize(tc) IN
    IF w = 0 THEN Raise("ValueError")
    ELSE IF Len(payload) % w # 0 THEN Raise("TypeError")
    ELSE Return([i \in 1..(Len(payload) \div w) |->
                   ReadItem(tc, SubSeq(payload, (i - 1) * w + 1, i * w), order)])

\* A variant that takes the first two items and ignores the rest.
ApplyFirstTwo(cls, memv) ==
    IF Len(memv) < 2 THEN Raise("TypeError") ELSE New(cls, memv[1], memv[2])

\* cls(*memv): the constructor takes exactly two positional arguments.
Apply(cls, memv) ==
    IF Len(memv) # 2 THEN Raise("TypeError") ELSE New(cls, memv[1], memv[2])

\* A variant that builds a Vector2d whatever class it is called on.
frombytesBase(cls, octets, order) ==
    IF octets = <<>> THEN Raise("IndexError")
    ELSE LET memv == Cast(Tail(octets), Chr(octets[1]), order)
         IN IF memv.kind = "raise" THEN memv ELSE Apply("Vector2d", memv.val)

\* A variant that casts at cls.typecode instead of at the leading byte.
frombytesClassTypecode(cls, octets, order) ==
    IF octets = <<>> THEN Raise("IndexError")
    ELSE LET memv == Cast(Tail(octets), typecode(cls), order)
         IN IF memv.kind = "raise" THEN memv ELSE Apply(cls, memv.val)

\* Vector2d.frombytes(cls, octets)
frombytes(cls, octets, order) ==
    IF octets = <<>> THEN Raise("IndexError")
    ELSE LET memv == Cast(Tail(octets), Chr(octets[1]), order)
         IN IF memv.kind = "raise" THEN memv ELSE Apply(cls, memv.val)

(***************************************************************************)
(* abs, bool, angle, repr, str, format                                     *)
(***************************************************************************)
\* math.hypot(x, y): exact where a coordinate is zero or not finite, and
\* otherwise the term hypot(|x|, |y|), a positive float.
Hypot(x, y) ==
    IF IsInf(x) \/ IsInf(y) THEN PyFloat(Dbl(0, 2047, 0, 0))
    ELSE IF IsNaN(x) \/ IsNaN(y) THEN PyFloat(Dbl(0, 2047, 4194304, 0))
    ELSE IF IsZero(x) THEN PyFloat(Dbl(0, y.e, y.mh, y.ml))
    ELSE IF IsZero(y) THEN PyFloat(Dbl(0, x.e, x.mh, x.ml))
    ELSE [t |-> "hypot", x |-> x, y |-> y]

\* Vector2d.__abs__
Abs(self) == Hypot(GetX(self), GetY(self))

\* Vector2d.__bool__: bool(abs(self)), False for a zero magnitude only.
Bool(self) == LET a == Abs(self) IN ~(a.t = "float" /\ IsZero(a.d))

\* Vector2d.angle: the term atan2(y, x).
angle(self) == [t |-> "atan2", y |-> GetY(self), x |-> GetX(self)]

\* The text of a float, or of a term, under a format specification.
Text(conv, c) == [conv |-> conv, of |-> c]

\* Vector2d.__repr__
Repr(self) == <<self.cls, "(", Text("!r", Items(self)[1]), ", ",
                Text("!r", Items(self)[2]), ")">>

\* Vector2d.__str__: str(tuple(self))
Str(self) == <<"(", Text("!r", Items(self)[1]), ", ", Text("!r", Items(self)[2]), ")">>

\* Vector2d.__format__
Format(self, format_spec) ==
    LET polar  == format_spec # <<>> /\ format_spec[Len(format_spec)] = "p"
        fspec  == IF polar THEN SubSeq(format_spec, 1, Len(format_spec) - 1)
                  ELSE format_spec
        coords == IF polar THEN <<Abs(self), angle(self)>> ELSE Items(self)
    IN IF polar
       THEN <<"<", Text(fspec, coords[1]), ", ", Text(fspec, coords[2]), ">">>
       ELSE <<"(", Text(fspec, coords[1]), ", ", Text(fspec, coords[2]), ")">>

(***************************************************************************)
(* Attribute assignment                                                    *)
(***************************************************************************)
\* What a class body binds a name to: a property without a setter (x, y), a
\* slot's member descriptor (the mangled names of __slots__), or a plain
\* class attribute.
ClassDict(c, name) ==
    IF c = "Vector2d"
    THEN CASE name \in {"x", "y"} -> "property"
           [] name \in {"_Vector2d__x", "_Vector2d__y"} -> "member"
           [] name \in {"typecode", "__match_args__", "__slots__", "angle",
                        "frombytes"} -> "plain"
           [] OTHER -> "absent"
    ELSE CASE name \in {"typecode", "__slots__"} -> "plain"
           [] OTHER -> "absent"

\* The first binding of name along the method resolution order.
RECURSIVE Lookup(_, _)
Lookup(mro, name) ==
    IF mro = <<>> THEN "absent"
    ELSE IF ClassDict(Head(mro), name) # "absent" THEN ClassDict(Head(mro), name)
    ELSE Lookup(Tail(mro), name)

\* A variant in which the subclass body does not set __slots__.
DefinesSlotsBaseOnly(c) == c = "Vector2d"

\* The classes whose body sets __slots__.
DefinesSlots(c) == c \in {"Vector2d", "ShortVector2d"}

\* An instance has a __dict__ unless every class of its MRO sets __slots__.
HasDict(cls) == \E i \in 1..Len(Mro(cls)) : ~DefinesSlots(Mro(cls)[i])

\* setattr(self, name, value): a data descriptor of the class decides; a
\* property without a setter refuses, a slot stores; otherwise the value
\* would go to the instance __dict__, which these classes do not have.
SetAttr(self, name, value) ==
    LET found == Lookup(Mro(self.cls), name) IN
    CASE found = "property" -> Raise("AttributeError")
      [] found = "member" ->
           Return(IF name = "_Vector2d__x" THEN [self EXCEPT !.x = value.d]
                  ELSE [self EXCEPT !.y = value.d])
      [] OTHER -> IF HasDict(self.cls) THEN Return(self) ELSE Raise("AttributeError")

(***************************************************************************)
(* The + operator                                                          *)
(***************************************************************************)
\* self + other.  Python looks __add__ up along the MRO of type(self):
\* neither class body binds it, and object has none.  The reflected
\* __radd__ of the right operand is absent from a vector, a tuple, a list
\* and None, and the one of an int or a float returns NotImplemented for a
\* vector.  With no method left to call, the operator raises TypeError.
Add(self, other) ==
    CASE Lookup(Mro(self.cls), "__add__") = "absent"
         /\ (other.t = "vector" => Lookup(Mro(other.cls), "__radd__") = "absent")
           -> Raise("TypeError")

(***************************************************************************)
(* Structural pattern matching                                             *)
(***************************************************************************)
\* A variant that names the fields in the other order.
MatchArgsSwapped == <<"y", "x">>

\* Vector2d.__match_args__
MatchArgs == <<"x", "y">>

\* getattr(self, name) for the names of __match_args__: the properties.
GetAttr(self, name) == CASE name = "x" -> GetX(self) [] name = "y" -> GetY(self)

\* isinstance(self, cls)
IsInstance(self, cls) == \E i \in 1..Len(Mro(self.cls)) : Mro(self.cls)[i] = cls

\* The sub-patterns of the cases: an int literal, the wildcard _, a capture.
Literal(n) == [p |-> "literal", n |-> n]

Wildcard == [p |-> "wildcard"]

Capture(name) == [p |-> "capture", name |-> name]

\* A sub-pattern against a float: a literal matches when value == literal,
\* the wildcard and a capture match anything.
SubMatch(pat, d) == pat.p = "literal" => FloatEq(d, IntToDouble(pat.n))

\* case cls(p1, ..., pn): the subject is an instance of cls and the i-th
\* positional sub-pattern matches the attribute named by __match_args__[i].
ClassPattern(subject, cls, pats) ==
    /\ IsInstance(subject, cls)
    /\ Len(pats) <= Len(MatchArgs)
    /\ \A i \in 1..Len(pats) : SubMatch(pats[i], GetAttr(subject, MatchArgs[i]))

\* The value a capture of the i-th position binds.
Captured(subject, i) == GetAttr(subject, MatchArgs[i])

\* match_vector(v) of the test suite: the cases in order, first match wins.
match_vector(subject) ==
    IF ClassPattern(subject, "Vector2d", <<Literal(0), Literal(0)>>) THEN "null"
    ELSE IF ClassPattern(subject, "Vector2d", <<Literal(0), Wildcard>>) THEN "vertical"
    ELSE IF ClassPattern(subject, "Vector2d", <<Wildcard, Literal(0)>>) THEN "horizontal"
    ELSE IF /\ ClassPattern(subject, "Vector2d", <<Capture("x"), Capture("y")>>)
            /\ FloatEq(Captured(subject, 1), Captured(subject, 2))
         THEN "diagonal"
    ELSE "other"

(***************************************************************************)
(* Inputs                                                                  *)
(***************************************************************************)
NumFloats == 5

MaxLen == 3

MaxItems == 3

Min(a, b) == IF a < b THEN a ELSE b

\* 0.0, -0.0, 3.14, 1e300, nan, 1e-40, 1.0000000596046448 (half-way between
\* two single-precision neighbours).
FloatSamples ==
    << Dbl(0, 0, 0, 0),
       Dbl(1, 0, 0, 0),
       Dbl(0, 1024, 4781506, 300647711),
       Dbl(0, 2019, 4137444, 134247836),
       Dbl(0, 2047, 4194304, 0),
       Dbl(0, 890, 745777, 125261724),
       Dbl(0, 1023, 0, 268435456) >>

FloatInputs ==
    {PyFloat(FloatSamples[i]) : i \in 1..Min(NumFloats, Len(FloatSamples))}

\* The constructor's arguments: floats, the int 3, the strings '3' and
\* 'three', None, and an int too large for a float.
CtorInputs ==
    FloatInputs \cup {PyInt(3), PyStr(<<"3">>), PyStr(<<"t", "h", "r", "e", "e">>),
                      PyNone, PyHugeInt}

SeqsUpTo(S, n) == UNION {[1..k -> S] : k \in 0..n}

\* The items of the sequences a vector is compared with.
ItemPool == {PyInt(3), PyFloat(Dbl(1, 0, 0, 0)), PyFloat(Dbl(0, 2047, 4194304, 0))}

\* The vectors a vector is compared with.
OperandVectors ==
    {New(c, a, b).val : c \in Classes, a \in ItemPool, b \in ItemPool}

\* The right-hand operands of ==.
Operands ==
    {[t |-> k, items |-> s] : k \in {"tuple", "list"}, s \in SeqsUpTo(ItemPool, MaxLen)}
    \cup OperandVectors
    \cup {PyInt(3), PyNone, PyFloat(Dbl(0, 0, 0, 0)), PyStr(<<"3", "3">>)}

\* The right-hand operands of +.
AddOperands ==
    OperandVectors \cup {PyInt(3), [t |-> "tuple", items |-> <<PyInt(3), PyInt(3)>>]}

FormatSpecs == {<<>>, <<"p">>, <<".", "2", "f">>, <<".", "2", "f", "p">>}

AttrNames == {"x", "y", "custom_attr", "arbitrary", "__x", "typecode",
              "_Vector2d__x", "_Vector2d__y"}

Zeros(n) == [i \in 1..n |-> 0]

\* Byte strings handed to frombytes that no __bytes__ produced: a first byte
\* 'd', 'f', 'B', 'c' or 'z' and a payload of zero bytes, of up to MaxItems
\* items and of lengths that are not a multiple of the item size; and b'c33'.
RawOctets ==
    {<<>>, <<99, 51, 51>>} \cup
    UNION {{<<b>> \o Zeros(k * (IF ItemSize(Chr(b)) = 0 THEN 1 ELSE ItemSize(Chr(b))) + r) :
               k \in 0..MaxItems, r \in {0, 1}} :
           b \in {100, 102, 66, 99, 122}}

(***************************************************************************)
(* The program: one vector variable and the operations applied to it       *)
(***************************************************************************)
\* No result is pending: the previous statement is complete.
Ready == ret.op = "idle"

Bound == Ready /\ v.t = "vector"

Outcome(op, r) == [op |-> op, kind |-> r.kind, val |-> r.val]

Init ==
    /\ v = [t |-> "unbound"]
    /\ ret = [op |-> "idle"]
    /\ byteorder \in {"little", "big"}

\* v = cls(x, y)
Construct(cls, x, y) ==
    LET r == New(cls, x, y) IN
    /\ Ready
    /\ v' = IF r.kind = "return" THEN r.val ELSE v
    /\ ret' = [op |-> "init", cls |-> cls, args |-> <<x, y>>,
               kind |-> r.kind, val |-> r.val]
    /\ UNCHANGED byteorder

\* v.x
ReadX ==
    /\ Bound
    /\ ret' = Outcome("x", Return(GetX(v)))
    /\ UNCHANGED <<v, byteorder>>

\* v.y
ReadY ==
    /\ Bound
    /\ ret' = Outcome("y", Return(GetY(v)))
    /\ UNCHANGED <<v, byteorder>>

\* hash(v)
HashOp ==
    /\ Bound
    /\ \E h \in Hashes(v) : ret' = Outcome("hash", Return(h))
    /\ UNCHANGED <<v, byteorder>>

\* tuple(v), x, y = v
IterOp ==
    /\ Bound
    /\ ret' = Outcome("iter", Return(Items(v)))
    /\ UNCHANGED <<v, byteorder>>

\* repr(v)
ReprOp ==
    /\ Bound
    /\ ret' = Outcome("repr", Return(Repr(v)))
    /\ UNCHANGED <<v, byteorder>>

\* str(v)
StrOp ==
    /\ Bound
    /\ ret' = Outcome("str", Return(Str(v)))
    /\ UNCHANGED <<v, byteorder>>

\* bytes(v)
BytesOp ==
    /\ Bound
    /\ ret' = Outcome("bytes", Return(Bytes(v, byteorder)))
    /\ UNCHANGED <<v, byteorder>>

\* v == other
EqOp(other) ==
    /\ Bound
    /\ ret' = [op |-> "eq", other |-> other, kind |-> "return",
               val |-> EqOperator(v, other)]
    /\ UNCHANGED <<v, byteorder>>

\* A variant of abs(v) that takes the magnitudes in place.
AbsOpInPlace ==
    /\ Bound
    /\ ret' = Outcome("abs", Return(Abs(v)))
    /\ v' = [v EXCEPT !.x = Dbl(0, v.x.e, v.x.mh, v.x.ml),
                      !.y = Dbl(0, v.y.e, v.y.mh, v.y.ml)]
    /\ UNCHANGED byteorder

\* abs(v)
AbsOp ==
    /\ Bound
    /\ ret' = Outcome("abs", Return(Abs(v)))
    /\ UNCHANGED <<v, byteorder>>

\* bool(v)
BoolOp ==
    /\ Bound
    /\ ret' = Outcome("bool", Return(Bool(v)))
    /\ UNCHANGED <<v, byteorder>>

\* format(v, format_spec)
FormatOp(format_spec) ==
    /\ Bound
    /\ ret' = [op |-> "format", spec |-> format_spec, kind |-> "return",
               val |-> Format(v, format_spec)]
    /\ UNCHANGED <<v, byteorder>>

\* v.angle()
AngleOp ==
    /\ Bound
    /\ ret' = Outcome("angle", Return(angle(v)))
    /\ UNCHANGED <<v, byteorder>>

\* v + other
AddOp(other) ==
    /\ Bound
    /\ LET r == Add(v, other) IN
       ret' = [op |-> "add", other |-> other, kind |-> r.kind, val |-> r.val]
    /\ UNCHANGED <<v, byteorder>>

\* match_vector(v)
MatchOp ==
    /\ Bound
    /\ ret' = Outcome("match", Return(match_vector(v)))
    /\ UNCHANGED <<v, byteorder>>

\* v.<name> = value
SetAttrOp(name, value) ==
    /\ Bound
    /\ LET r == SetAttr(v, name, value) IN
       /\ v' = IF r.kind = "return" THEN r.val ELSE v
       /\ ret' = [op |-> "setattr", name |-> name, value |-> value,
                  kind |-> r.kind, val |-> r.val]
    /\ UNCHANGED byteorder

\* v = cls.frombytes(octets), for the bytes of v itself or a raw byte string
FromBytesOp(cls, octets) ==
    LET r == frombytes(cls, octets, byteorder) IN
    /\ Ready
    /\ v' = IF r.kind = "return" THEN r.val ELSE v
    /\ ret' = [op |-> "frombytes", cls |-> cls, octets |-> octets, src |-> v,
               kind |-> r.kind, val |-> r.val]
    /\ UNCHANGED byteorder

\* The statement ends: its result, or the exception it raised, has been
\* looked at and is dropped, and the program goes on to its next statement.
Discard ==
    /\ ~Ready
    /\ ret' = [op |-> "idle"]
    /\ UNCHANGED <<v, byteorder>>

Next ==
    \/ \E cls \in Classes, x \in CtorInputs, y \in CtorInputs : Construct(cls, x, y)
    \/ ReadX
    \/ ReadY
    \/ HashOp
    \/ IterOp
    \/ ReprOp
    \/ StrOp
    \/ BytesOp
    \/ \E other \in Operands : EqOp(other)
    \/ AbsOp
    \/ BoolOp
    \/ \E format_spec \in FormatSpecs : FormatOp(format_spec)
    \/ AngleOp
    \/ \E other \in AddOperands : AddOp(other)
    \/ MatchOp
    \/ \E name \in AttrNames, value \in FloatInputs : SetAttrOp(name, value)
    \/ \E cls \in Classes :
         \E octets \in (IF Bound THEN {Bytes(v, byteorder)} ELSE {}) \cup RawOctets :
            FromBytesOp(cls, octets)
    \/ Discard

Spec == Init /\ [][Next]_vars
(***************************************************************************)
(* Properties                                                              *)
(***************************************************************************)
ReadOps == {"x", "y", "hash", "iter", "repr", "str", "bytes", "eq", "abs",
            "bool", "format", "angle"}

\* C1: reading x or y, hash, iteration, repr, str, bytes, ==, abs, bool,
\* format and angle leave the vector as it was: whenever a step is one of
\* these operations, v, and so its x and y, is the same after it as before.
C1_ReadsKeepState == [][ret'.op \in ReadOps => v' = v]_vars

C1_Witness ==
    /\ ret.op = "abs"
    /\ v.t = "vector"
    /\ v.cls = "ShortVector2d"
    /\ v.x.s = 1

\* The names that no class of either variant binds.
NewAttrNames == {"custom_attr", "arbitrary", "__x"}

\* C2: assigning to x, to y or to a new attribute name, on an instance of
\* either variant, raises AttributeError and leaves the vector unchanged.
C2_AssignmentRefused ==
    [][(ret'.op = "setattr" /\ ret'.name \in {"x", "y"} \cup NewAttrNames)
          => (ret'.kind = "raise" /\ ret'.val = "AttributeError" /\ v' = v)]_vars

C2_Witness ==
    /\ ret.op = "setattr"
    /\ ret.name = "arbitrary"
    /\ ret.kind = "raise"
    /\ v.t = "vector"
    /\ v.cls = "ShortVector2d"

\* C3: when v is compared with a vector whose coordinate pair equals its own,
\* of the same variant or the other, == is True and every hash of the one
\* equals every hash of the other (the condition under which a set or a
\* mapping treats the two as one key).
C3_EqualPairsSameKey ==
    (/\ ret.op = "eq"
     /\ ret.other.t = "vector"
     /\ FloatEq(v.x, ret.other.x)
     /\ FloatEq(v.y, ret.other.y))
    => (/\ ret.val = TRUE
        /\ \A h1 \in Hashes(v), h2 \in Hashes(ret.other) : h1 = h2)

C3_Witness ==
    /\ ret.op = "eq"
    /\ ret.other.t = "vector"
    /\ ret.other.cls # v.cls
    /\ FloatEq(v.x, ret.other.x)
    /\ FloatEq(v.y, ret.other.y)
    /\ v.x # ret.other.x
    /\ ret.val = TRUE

\* C4: v == other is True exactly when other is an iterable (a vector, a
\* tuple, a list, a str) of exactly two items, the first equal to v.x and the
\* second equal to v.y; it is False for any other length, for a differing
\* item and for an operand that is not iterable.
C4_EqIffTwoEqualItems ==
    ret.op = "eq" =>
        (ret.val = TRUE <=>
            (/\ ret.other.t \in {"vector", "tuple", "list", "str"}
             /\ LET items == TupleOf(ret.other) IN
                /\ Len(items) = 2
                /\ ItemEq(PyFloat(v.x), items[1])
                /\ ItemEq(PyFloat(v.y), items[2])))

C4_Witness ==
    /\ ret.op = "eq"
    /\ ret.other.t = "list"
    /\ Len(ret.other.items) = 2
    /\ ret.other.items[1].t = "int"
    /\ ret.val = TRUE

\* C5: decoding, through Vector2d, the bytes of a Vector2d returns a vector
\* with exactly the x and the y of the encoded one.
C5_DoubleRoundTrip ==
    (/\ ret.op = "frombytes"
     /\ ret.cls = "Vector2d"
     /\ ret.src.t = "vector"
     /\ ret.src.cls = "Vector2d"
     /\ ret.octets = Bytes(ret.src, byteorder))
    => (/\ ret.kind = "return"
        /\ ret.val.x = ret.src.x
        /\ ret.val.y = ret.src.y)

C5_Witness ==
    /\ ret.op = "frombytes"
    /\ ret.cls = "Vector2d"
    /\ ret.src.t = "vector"
    /\ ret.src.cls = "Vector2d"
    /\ ret.octets = Bytes(ret.src, byteorder)
    /\ ret.src.x.ml # 0
    /\ IsNaN(ret.src.y)
    /\ ret.kind = "return"
(***************************************************************************)
(* math.isclose(a, b, rel_tol=1e-6), exactly: |a - b| * 10^6 <= max(|a|,   *)
(* |b|), on significands held as little-endian sequences of 15-bit limbs.  *)
(***************************************************************************)
Limb == 2 ^ 15

\* The significand of a finite double (with its hidden bit), as limbs.
Significand(d) ==
    << d.ml % Limb,
       (d.ml \div Limb) + (d.mh % 2) * 16384,
       (d.mh \div 2) % Limb,
       (d.mh \div 65536) + (IF d.e > 0 THEN 128 ELSE 0) >>

RECURSIVE MulCarry(_, _, _)
MulCarry(x, k, carry) ==
    IF x = <<>>
    THEN IF carry = 0 THEN <<>> ELSE <<carry % Limb>> \o MulCarry(<<>>, k, carry \div Limb)
    ELSE LET p == Head(x) * k + carry
         IN <<p % Limb>> \o MulCarry(Tail(x), k, p \div Limb)

MulSmall(x, k) == MulCarry(x, k, 0)

LimbAt(x, i) == IF i <= Len(x) THEN x[i] ELSE 0

\* a <= b, comparing from limb i downwards.
RECURSIVE LeqFrom(_, _, _)
LeqFrom(a, b, i) ==
    IF i = 0 THEN TRUE
    ELSE IF LimbAt(a, i) # LimbAt(b, i) THEN LimbAt(a, i) < LimbAt(b, i)
    ELSE LeqFrom(a, b, i - 1)

LimbsLeq(a, b) == LeqFrom(a, b, IF Len(a) > Len(b) THEN Len(a) ELSE Len(b))

\* a - b for a >= b, from limb i upwards.
RECURSIVE SubFrom(_, _, _, _)
SubFrom(a, b, i, borrow) ==
    IF i > Len(a) THEN <<>>
    ELSE LET t == LimbAt(a, i) - LimbAt(b, i) - borrow
         IN IF t < 0 THEN <<t + Limb>> \o SubFrom(a, b, i + 1, 1)
            ELSE <<t>> \o SubFrom(a, b, i + 1, 0)

\* |a| >= |b| for finite doubles: by exponent, then by fraction.
MagnitudeGeq(a, b) ==
    \/ a.e > b.e
    \/ a.e = b.e /\ a.mh > b.mh
    \/ a.e = b.e /\ a.mh = b.mh /\ a.ml >= b.ml

IsClose(a, b) ==
    IF FloatEq(a, b) THEN TRUE
    ELSE IF a.e = 2047 \/ b.e = 2047 THEN FALSE
    ELSE IF a.s # b.s THEN FALSE
    ELSE LET hi == IF MagnitudeGeq(a, b) THEN a ELSE b
             lo == IF MagnitudeGeq(a, b) THEN b ELSE a
             k  == (IF hi.e = 0 THEN 1 ELSE hi.e) - (IF lo.e = 0 THEN 1 ELSE lo.e)
         IN IF k >= 2 THEN FALSE
            ELSE LET A == MulSmall(Significand(hi), 2 ^ k)
                     D == SubFrom(A, Significand(lo), 1, 0)
                 IN LimbsLeq(MulSmall(MulSmall(D, 1000), 1000), A)

\* C6, as claimed: decoding, through ShortVector2d, the bytes of any
\* ShortVector2d succeeds and returns coordinates within a relative 1e-6 of
\* the encoded vector's x and y.
C6_SingleRoundTripClose ==
    (/\ ret.op = "frombytes"
     /\ ret.cls = "ShortVector2d"
     /\ ret.src.t = "vector"
     /\ ret.src.cls = "ShortVector2d"
     /\ ret.octets = Bytes(ret.src, byteorder))
    => (/\ ret.kind = "return"
        /\ IsClose(ret.src.x, ret.val.x)
        /\ IsClose(ret.src.y, ret.val.y))

\* C7: bytes(v) is one byte, ord('d') for a Vector2d and ord('f') for a
\* ShortVector2d, then x and then y at that width: 17 bytes of which the two
\* 8-byte items read back as x and y, or 9 bytes of which the two 4-byte
\* items read back as x and y converted to single precision.
C7_BytesLayout ==
    ret.op = "bytes" =>
        IF v.cls = "Vector2d"
        THEN /\ Len(ret.val) = 17
             /\ ret.val[1] = 100
             /\ UnpackDouble(SubSeq(ret.val, 2, 9), byteorder) = v.x
             /\ UnpackDouble(SubSeq(ret.val, 10, 17), byteorder) = v.y
        ELSE /\ Len(ret.val) = 9
             /\ ret.val[1] = 102
             /\ UnpackFloat(SubSeq(ret.val, 2, 5), byteorder) = DoubleToFloat(v.x)
             /\ UnpackFloat(SubSeq(ret.val, 6, 9), byteorder) = DoubleToFloat(v.y)

C7_Witness ==
    /\ ret.op = "bytes"
    /\ v.cls = "ShortVector2d"
    /\ v.x.ml # 0
    /\ DoubleToFloat(v.x) # DoubleToFloat(v.y)

\* C8, as claimed: whatever frombytes returns is a Vector2d, also when it is
\* called on ShortVector2d.
C8_AlwaysBaseType ==
    (ret.op = "frombytes" /\ ret.kind = "return") => ret.val.cls = "Vector2d"

\* C8, amended: whatever frombytes returns is an instance of the class it
\* was called on, whatever the type code in the first byte.
C8_ReturnsCalledClass ==
    (ret.op = "frombytes" /\ ret.kind = "return") => ret.val.cls = ret.cls

C8_Witness ==
    /\ ret.op = "frombytes"
    /\ ret.kind = "return"
    /\ ret.cls = "ShortVector2d"
    /\ ret.octets[1] = 100
    /\ ret.val.cls = "ShortVector2d"

\* x coerced to the floating-point width of the variant.
Coerced(cls, d) ==
    IF cls = "ShortVector2d" THEN FloatToDouble(DoubleToFloat(d)) ELSE d

\* C9, as claimed: a vector constructed from numeric x and y reads back x and
\* y coerced to the width of its variant: double precision for Vector2d,
\* single precision for ShortVector2d.
C9_CoercedToVariantWidth ==
    (ret.op = "init" /\ ret.kind = "return")
    => (/\ GetX(ret.val) = Coerced(ret.cls, Float(ret.args[1]).val)
        /\ GetY(ret.val) = Coerced(ret.cls, Float(ret.args[2]).val))

\* An argument that is no number and no numeric string.
NotANumber(x) ==
    \/ x.t = "NoneType"
    \/ x.t = "str" /\ ParseFloat(x.s).kind = "raise"

\* C10, as claimed: when x or y cannot be converted to a number, constructing
\* raises ValueError; and the statement either binds a vector with both
\* coordinates set or raises and binds nothing.
C10_ValueErrorAndAtomic ==
    ret.op = "init" =>
        /\ (NotANumber(ret.args[1]) \/ NotANumber(ret.args[2]))
              => (ret.kind = "raise" /\ ret.val = "ValueError")
        /\ ret.kind = "return"
              => (v = ret.val /\ DOMAIN v = {"t", "cls", "x", "y"})

\* The whole numbers whose sums the claim's examples use.
SmallInts == (0 - 8)..8

IsSmallInt(d) == \E n \in SmallInts : IntToDouble(n) = d

IntOf(d) == CHOOSE n \in SmallInts : IntToDouble(n) = d

\* C11, as claimed: v + other, for two vectors of the same variant, returns
\* a vector of that variant, and where the four coordinates are small whole
\* numbers (as in Vector2d(3, 4) + Vector2d(1, 2)) its coordinates are their
\* component-wise sums.
C11_AddsComponentwise ==
    (/\ ret.op = "add"
     /\ ret.other.t = "vector"
     /\ ret.other.cls = v.cls)
    => (/\ ret.kind = "return"
        /\ ret.val.t = "vector"
        /\ ret.val.cls = v.cls
        /\ (IsSmallInt(v.x) /\ IsSmallInt(ret.other.x))
              => ret.val.x = IntToDouble(IntOf(v.x) + IntOf(ret.other.x))
        /\ (IsSmallInt(v.y) /\ IsSmallInt(ret.other.y))
              => ret.val.y = IntToDouble(IntOf(v.y) + IntOf(ret.other.y)))

\* d == 0
EqualsZero(d) == FloatEq(d, IntToDouble(0))

\* C12: the positional match fields are x then y, and match_vector gives
\* every vector, of either variant, one category by first match: null when
\* x == 0 and y == 0; vertical when x == 0 and y != 0; horizontal when
\* x != 0 and y == 0; diagonal when x == y and x != 0; other for the rest.
C12_MatchCategories ==
    /\ MatchArgs[1] = "x"
    /\ MatchArgs[2] = "y"
    /\ Len(MatchArgs) = 2
    /\ ret.op = "match" =>
          /\ ret.val \in {"null", "vertical", "horizontal", "diagonal", "other"}
          /\ ret.val = "null" <=> (EqualsZero(v.x) /\ EqualsZero(v.y))
          /\ ret.val = "vertical" <=> (EqualsZero(v.x) /\ ~EqualsZero(v.y))
          /\ ret.val = "horizontal" <=> (~EqualsZero(v.x) /\ EqualsZero(v.y))
          /\ ret.val = "diagonal"
                <=> (~EqualsZero(v.x) /\ ~EqualsZero(v.y) /\ FloatEq(v.x, v.y))
          /\ ret.val = "other"
                <=> (~EqualsZero(v.x) /\ ~EqualsZero(v.y) /\ ~FloatEq(v.x, v.y))

C12_Witness ==
    /\ ret.op = "match"
    /\ ret.val = "vertical"
    /\ v.cls = "ShortVector2d"
    /\ v.x.s = 1
    /\ IsNaN(v.y)

\* C13: frombytes reads the payload at the width named by the leading byte,
\* not by the class it is called on: Vector2d.frombytes(bytes(sv)) returns
\* sv's coordinates converted to single precision, and
\* ShortVector2d.frombytes(bytes(v)) returns exactly v's coordinates.
C13_WidthFromLeadingByte ==
    (/\ ret.op = "frombytes"
     /\ ret.src.t = "vector"
     /\ ret.src.cls # ret.cls
     /\ ret.octets = Bytes(ret.src, byteorder))
    => (/\ ret.kind = "return"
        /\ IF ret.src.cls = "ShortVector2d"
           THEN /\ ret.val.x = FloatToDouble(DoubleToFloat(ret.src.x))
                /\ ret.val.y = FloatToDouble(DoubleToFloat(ret.src.y))
           ELSE /\ ret.val.x = ret.src.x
                /\ ret.val.y = ret.src.y)

C13_Witness ==
    /\ ret.op = "frombytes"
    /\ ret.cls = "Vector2d"
    /\ ret.src.t = "vector"
    /\ ret.src.cls = "ShortVector2d"
    /\ ret.octets = Bytes(ret.src, byteorder)
    /\ ret.kind = "return"
    /\ ret.val.x # ret.src.x
    /\ IsInf(ret.val.x)
    /\ ret.val.y = ret.src.y

\* The bytes after the first hold exactly two items of the width implied by
\* the first byte taken as a type code.
HoldsTwoItems(octets) ==
    /\ octets # <<>>
    /\ ItemSize(Chr(octets[1])) # 0
    /\ Len(octets) - 1 = 2 * ItemSize(Chr(octets[1]))

\* C14: frombytes returns a vector only for an input that holds exactly two
\* items; for every other input (empty, a first byte that is no type code, a
\* payload that is no multiple of the item width, fewer or more than two
\* items) it raises an error, and no vector is returned or bound.
C14_VectorOnlyFromTwoItems ==
    ret.op = "frombytes" =>
        /\ ret.kind = "return" => HoldsTwoItems(ret.octets)
        /\ ~HoldsTwoItems(ret.octets)
              => (/\ ret.kind = "raise"
                  /\ ret.val \in {"IndexError", "ValueError", "TypeError"}
                  /\ v = ret.src)

C14_Witness ==
    /\ ret.op = "frombytes"
    /\ ret.octets # <<>>
    /\ ret.octets[1] = 100
    /\ Len(ret.octets) = 25
    /\ ret.kind = "raise"
    /\ ret.val = "TypeError"
    /\ v.t = "vector"
====
